---- MODULE Spec2Model ----
(***************************************************************************)
(* Queueing-metrics classes BaseQueue, MM1Queue, MD1Queue, MG1Queue,       *)
(* MMcQueue and MMcPriorityQueue: parameter setters, validity and          *)
(* feasibility predicates, the lazily recomputed primitives _lq and _p0,   *)
(* the derived metrics and the per-class accessors.                        *)
(*                                                                         *)
(* Python numbers are modelled as exact rationals n/d (d > 0, lowest       *)
(* terms) extended with the float values nan, +inf and -inf; a raised      *)
(* exception is the value Raise, which every arithmetic operator           *)
(* propagates.                                                             *)
(***************************************************************************)
EXTENDS Integers, Sequences, FiniteSets, TLC

\* ------------------------------------------------------------------------
\* Bounds of the explored input space
\* ------------------------------------------------------------------------
\* server counts offered to the c setter range over -1 .. MaxServers
MaxServers == 3
\* reads of a primitive explored between two consecutive assignments
MaxCalc == 2
\* class indices offered to the per-class accessors range over -1 .. MaxClass
MaxClass == 4

\* ------------------------------------------------------------------------
\* Extended numbers
\* ------------------------------------------------------------------------
Abs(x) == IF x < 0 THEN -x ELSE x

RECURSIVE GCD(_, _)
GCD(a, b) == IF b = 0 THEN a ELSE GCD(b, a % b)

Num(n, d) ==
    LET g == GCD(Abs(n), Abs(d))
        s == IF d < 0 THEN -1 ELSE 1
    IN  [k |-> "num", n |-> s * (n \div g), d |-> s * (d \div g)]

NaN    == [k |-> "nan",   n |-> 0, d |-> 1]
Inf    == [k |-> "inf",   n |-> 0, d |-> 1]
NegInf == [k |-> "ninf",  n |-> 0, d |-> 1]
Raise  == [k |-> "raise", n |-> 0, d |-> 1]
\* an attribute the class does not have (e.g. _sigma of an MM1Queue)
None   == [k |-> "none",  n |-> 0, d |-> 1]

IsNum(a) == a.k = "num"
isnan(a) == a.k = "nan"
isinf(a) == a.k \in {"inf", "ninf"}
Raised(a) == a.k = "raise"

\* sign of an extended number that is not nan: -1, 0 or 1
Sgn(a) == CASE a.k = "inf"  -> 1
            [] a.k = "ninf" -> -1
            [] OTHER -> IF a.n > 0 THEN 1 ELSE IF a.n < 0 THEN -1 ELSE 0

Signed(s) == IF s > 0 THEN Inf ELSE NegInf

Neg(a) == CASE a.k = "num"  -> Num(-a.n, a.d)
            [] a.k = "inf"  -> NegInf
            [] a.k = "ninf" -> Inf
            [] OTHER -> a

Add(a, b) ==
    CASE Raised(a) \/ Raised(b) -> Raise
      [] isnan(a) \/ isnan(b)   -> NaN
      [] isinf(a) /\ isinf(b)   -> IF a.k = b.k THEN a ELSE NaN
      [] isinf(a)               -> a
      [] isinf(b)               -> b
      [] OTHER ->
            LET g == GCD(a.d, b.d)
            IN  Num(a.n * (b.d \div g) + b.n * (a.d \div g), a.d * (b.d \div g))

Sub(a, b) == Add(a, Neg(b))

Mul(a, b) ==
    CASE Raised(a) \/ Raised(b) -> Raise
      [] isnan(a) \/ isnan(b)   -> NaN
      [] isinf(a) \/ isinf(b)   ->
            IF Sgn(a) = 0 \/ Sgn(b) = 0 THEN NaN ELSE Signed(Sgn(a) * Sgn(b))
      [] OTHER ->
            LET g1 == GCD(Abs(a.n), b.d)
                g2 == GCD(Abs(b.n), a.d)
            IN  Num((a.n \div g1) * (b.n \div g2), (a.d \div g2) * (b.d \div g1))

\* Python's true division: a zero divisor raises ZeroDivisionError whatever
\* the dividend is
Div(a, b) ==
    CASE Raised(a) \/ Raised(b) -> Raise
      [] IsNum(b) /\ b.n = 0    -> Raise
      [] isnan(a) \/ isnan(b)   -> NaN
      [] isinf(a) /\ isinf(b)   -> NaN
      [] isinf(a)               -> Signed(Sgn(a) * Sgn(b))
      [] isinf(b)               -> Num(0, 1)
      [] OTHER -> Mul(a, Num(b.d, b.n))

RECURSIVE Pow(_, _)
Pow(a, e) == IF e = 0 THEN Num(1, 1) ELSE Mul(a, Pow(a, e - 1))

RECURSIVE factorial(_)
factorial(i) == IF i = 0 THEN 1 ELSE i * factorial(i - 1)

\* comparisons; every comparison with nan is False
Lt(a, b) ==
    /\ ~isnan(a) /\ ~isnan(b)
    /\ CASE a.k = "ninf" -> b.k # "ninf"
         [] a.k = "inf"  -> FALSE
         [] b.k = "inf"  -> TRUE
         [] b.k = "ninf" -> FALSE
         [] OTHER -> a.n * b.d < b.n * a.d
Eq(a, b) == ~isnan(a) /\ ~isnan(b) /\ a = b
Le(a, b) == Lt(a, b) \/ Eq(a, b)
Ge(a, b) == Le(b, a)
Gt(a, b) == Lt(b, a)

Zero == Num(0, 1)
One  == Num(1, 1)


\* ------------------------------------------------------------------------
\* Python values handed to constructors and setters
\* ------------------------------------------------------------------------
\* ty is the Python type: "int", "float", "str" or "tuple" ("nan" for
\* math.nan, "unset" and "none" for no value at all); n/d is the value
\* of a number and elems the elements of a tuple
Int_(n)      == [ty |-> "int",   n |-> n, d |-> 1, elems |-> <<>>]
Float_(n, d) == [ty |-> "float", n |-> n, d |-> d, elems |-> <<>>]
\* the string "twenty"; n is its length
Str_         == [ty |-> "str",   n |-> 6, d |-> 1, elems |-> <<>>]
Tuple_(es)   == [ty |-> "tuple", n |-> 0, d |-> 1, elems |-> es]
\* math.nan held as a Python value
PyNaN        == [ty |-> "nan",   n |-> 0, d |-> 1, elems |-> <<>>]
\* an attribute that has not been assigned yet
Unset        == [ty |-> "unset", n |-> 0, d |-> 1, elems |-> <<>>]
\* a call without an argument
NoArg        == [ty |-> "none",  n |-> 0, d |-> 1, elems |-> <<>>]

\* isinstance(value, Number)
IsNumber(v) == v.ty \in {"int", "float"}
\* the numeric value of a Python number
Val(v) == Num(v.n, v.d)

\* isinstance(value, (int, float)); math.nan is a float
IsIntOrFloat(v) == v.ty \in {"int", "float", "nan"}
\* the extended number a Python int or float stands for
ToExt(v) == IF v.ty = "nan" THEN NaN ELSE Val(v)
\* the Python value of an extended number computed from operands of type ty
FromExt(x, ty) ==
    IF isnan(x) THEN PyNaN ELSE [ty |-> ty, n |-> x.n, d |-> x.d, elems |-> <<>>]

\* arrival rates: scalars, a string and the tuples of the test tables
LamdaInputs ==
    { Int_(0), Int_(20), Int_(25), Int_(30), Float_(20, 1), Str_,
      Tuple_(<<Int_(5), Int_(10), Int_(5)>>),
      Tuple_(<<Int_(5), Int_(10), Int_(-5)>>),
      Tuple_(<<Int_(5), Int_(10), Str_>>),
      Tuple_(<<>>) }
MuInputs == { Int_(0), Int_(20), Int_(25), Str_ }
\* 0.04 is 1/25
SigmaInputs == { Int_(0), Float_(1, 25), Float_(-1, 25), Str_ }
CInputs == { Int_(i) : i \in -1 .. MaxServers } \cup { Float_(2, 1), Str_ }
\* arrival rates, service rates and server counts handed to
\* MMcPriorityQueue
PriorityLamdaInputs ==
    { Int_(0), Int_(20), Str_,
      Tuple_(<<Int_(5), Int_(10), Int_(5)>>),
      Tuple_(<<Int_(10), Int_(10), Int_(10)>>),
      Tuple_(<<Int_(5), Int_(10), Int_(-5)>>),
      Tuple_(<<Int_(5), Int_(10), Str_>>),
      Tuple_(<<>>) }
PriorityMuInputs == { Int_(0), Int_(25) }
PriorityCInputs == { Int_(0), Int_(1) }

\* tuples and a scalar assigned to lamda_k
LamdaKInputs ==
    { Tuple_(<<Float_(5, 1), Float_(10, 1), Float_(5, 1)>>),
      Tuple_(<<Int_(5), Int_(10), Int_(5)>>),
      Tuple_(<<Float_(5, 1), Float_(-1, 1)>>),
      Tuple_(<<Float_(5, 1), Str_>>),
      Float_(7, 1) }
\* class indices k handed to the per-class accessors
KInputs == -1 .. MaxClass

Kinds == {"BaseQueue", "MM1Queue", "MD1Queue", "MG1Queue", "MMcQueue"}
\* the classes with a server count
MultiServer == {"MMcQueue", "MMcPriorityQueue"}

\* builtin sum() over a tuple of numbers; sum(()) is 0
RECURSIVE sum(_)
sum(es) == IF es = <<>> THEN Zero ELSE Add(ToExt(Head(es)), sum(Tail(es)))

\* whether len() and iteration are defined on the value
IsSeq(v) == v.ty \in {"tuple", "str"}
\* builtin len() of a tuple or a string
len(v) == IF v.ty = "tuple" THEN Len(v.elems) ELSE v.n
\* the Python type of sum() over a tuple of numbers
SumType(v) ==
    IF \A i \in 1 .. Len(v.elems) : v.elems[i].ty = "int" THEN "int" ELSE "float"

\* ------------------------------------------------------------------------
\* Setters: each takes the instance and the assigned value and returns the
\* instance after the assignment
\* ------------------------------------------------------------------------
\* lamda.setter without its last statement
lamda_setter_no_flag(self, value) ==
    LET new ==
          IF value.ty = "tuple"
          THEN IF ~(\A i \in 1 .. Len(value.elems) :
                       IsNumber(value.elems[i]) /\ Gt(Val(value.elems[i]), Zero))
               THEN NaN
               ELSE sum(value.elems)
          ELSE IF IsNumber(value)
               THEN IF Gt(Val(value), Zero) THEN Val(value) ELSE NaN
               ELSE NaN
    IN  [self EXCEPT !._lamda = new]

\* lamda.setter that sums the acceptable elements of a tuple and skips
\* the others
lamda_setter_partial_sum(self, value) ==
    LET ok(e) == IsNumber(e) /\ Gt(Val(e), Zero)
        new ==
          IF value.ty = "tuple"
          THEN sum(SelectSeq(value.elems, ok))
          ELSE IF IsNumber(value)
               THEN IF Gt(Val(value), Zero) THEN Val(value) ELSE NaN
               ELSE NaN
    IN  [self EXCEPT !._lamda = new, !._recalc_needed = TRUE]

lamda_setter(self, value) ==
    LET new ==
          IF value.ty = "tuple"
          THEN IF ~(\A i \in 1 .. Len(value.elems) :
                       IsNumber(value.elems[i]) /\ Gt(Val(value.elems[i]), Zero))
               THEN NaN
               ELSE sum(value.elems)
          ELSE IF IsNumber(value)
               THEN IF Gt(Val(value), Zero) THEN Val(value) ELSE NaN
               ELSE NaN
    IN  [self EXCEPT !._lamda = new, !._recalc_needed = TRUE]

\* mu setter that also resets the cached primitives
mu_setter_resets(self, value) ==
    LET new == IF ~IsNumber(value) \/ Le(Val(value), Zero) THEN NaN ELSE Val(value)
    IN  [self EXCEPT !._mu = new, !._recalc_needed = TRUE,
                     !._lq = NaN, !._p0 = NaN]

mu_setter(self, value) ==
    LET new == IF ~IsNumber(value) \/ Le(Val(value), Zero) THEN NaN ELSE Val(value)
    IN  [self EXCEPT !._mu = new, !._recalc_needed = TRUE]

sigma_setter(self, value) ==
    LET new == IF IsNumber(value) /\ Ge(Val(value), Zero) THEN Val(value) ELSE NaN
    IN  [self EXCEPT !._sigma = new, !._recalc_needed = TRUE]

c_setter(self, value) ==
    LET new == IF value.ty # "int" \/ Le(Val(value), Zero) THEN NaN ELSE Val(value)
    IN  [self EXCEPT !._c = new, !._recalc_needed = TRUE]

\* ------------------------------------------------------------------------
\* Constructors
\* ------------------------------------------------------------------------
\* the attributes exist only once assigned; None stands for a missing one
Blank(kind) ==
    [kind |-> kind, _lamda |-> None, _mu |-> None, _sigma |-> None,
     _c |-> None, _lamda_k |-> Unset, _lq |-> None, _p0 |-> None,
     _recalc_needed |-> FALSE]

\* __init__ that assigns the parameters and leaves the primitives unset
BaseQueue_init_parameters_only(kind, lamda, mu) ==
    mu_setter(lamda_setter(Blank(kind), lamda), mu)

BaseQueue_init(kind, lamda, mu) ==
    LET s1 == lamda_setter(Blank(kind), lamda)
        s2 == mu_setter(s1, mu)
    IN  [s2 EXCEPT !._p0 = NaN, !._lq = NaN, !._recalc_needed = TRUE]

MG1Queue_init(lamda, mu, sigma) ==
    sigma_setter(BaseQueue_init("MG1Queue", lamda, mu), sigma)

MMcQueue_init(lamda, mu, c) ==
    c_setter(BaseQueue_init("MMcQueue", lamda, mu), c)

\* ------------------------------------------------------------------------
\* Traffic intensity
\* ------------------------------------------------------------------------
\* _lamda holds a number after every BaseQueue.lamda assignment, so the
\* tuple branch is never taken: sum((self._lamda,))
BaseQueue_simplify_lamda(self) == Add(Zero, self._lamda)

\* iterates _lamda_k: a number is not iterable and a missing attribute
\* cannot be read (both raise); the characters of a string are no numbers
MMcPriorityQueue_simplify_lamda(self) ==
    LET lk == self._lamda_k
    IN  CASE lk.ty = "tuple" ->
               IF \A i \in 1 .. Len(lk.elems) : IsIntOrFloat(lk.elems[i])
               THEN sum(lk.elems)
               ELSE NaN
          [] lk.ty = "str" -> IF lk.n > 0 THEN NaN ELSE Zero
          [] OTHER -> Raise

\* method resolution of self.simplify_lamda()
simplify_lamda(self) ==
    IF self.kind = "MMcPriorityQueue"
    THEN MMcPriorityQueue_simplify_lamda(self)
    ELSE BaseQueue_simplify_lamda(self)

r(self) == Div(simplify_lamda(self), self._mu)

BaseQueue_ro(self) == r(self)
MMcQueue_ro(self) == Div(r(self), self._c)
ro(self) == IF self.kind \in MultiServer THEN MMcQueue_ro(self) ELSE BaseQueue_ro(self)

utilization(self) == r(self)

\* the lamda and lamda_k getters
lamda(self) == self._lamda
lamda_k(self) == self._lamda_k

\* ------------------------------------------------------------------------
\* MMcPriorityQueue: assignments and construction.  Each returns the
\* instance after the call and Raise in ret when the call raises.
\* ------------------------------------------------------------------------
Returns(s) == [self |-> s, ret |-> None]
Raises(s)  == [self |-> s, ret |-> Raise]

MMcPriorityQueue_lamda_setter(self, value) ==
    LET agg == IF IsIntOrFloat(value) /\ Gt(ToExt(value), Zero)
               THEN MMcPriorityQueue_simplify_lamda(self)
               ELSE NaN
    IN  IF Raised(agg)
        THEN Raises(self)
        ELSE Returns([self EXCEPT !._lamda = agg,
                                  !._lamda_k = IF isnan(agg) THEN PyNaN ELSE value,
                                  !._recalc_needed = TRUE])

MMcPriorityQueue_lamda_k_setter(self, values) ==
    IF ~IsSeq(values)
    THEN \* len() of a number
         Raises(self)
    ELSE LET s1 == IF \E i \in 1 .. Len(values.elems) :
                         /\ values.elems[i].ty = "float"
                         /\ Gt(Val(values.elems[i]), Zero)
                   THEN [self EXCEPT !._lamda_k = values]
                   ELSE self
             agg == MMcPriorityQueue_simplify_lamda(s1)
         IN  IF Raised(agg)
             THEN Raises(s1)
             ELSE LET res == MMcPriorityQueue_lamda_setter(
                                 s1, FromExt(agg, SumType(s1._lamda_k)))
                  IN  IF Raised(res.ret)
                      THEN res
                      ELSE Returns([res.self EXCEPT !._recalc_needed = TRUE])

\* BaseQueue.__init__ assigns lamda through the overriding setter while
\* _lamda_k does not exist yet
MMcPriorityQueue_init(lamda_, mu, c) ==
    LET s1 == MMcPriorityQueue_lamda_setter(Blank("MMcPriorityQueue"), lamda_)
        s2 == mu_setter(s1.self, mu)
        s3 == [s2 EXCEPT !._p0 = NaN, !._lq = NaN, !._recalc_needed = TRUE]
        s4 == c_setter(s3, c)
    IN  IF Raised(s1.ret)
        THEN s1
        ELSE Returns([s4 EXCEPT !._lamda_k = lamda_])

\* ------------------------------------------------------------------------
\* Validity and feasibility
\* ------------------------------------------------------------------------
\* is_valid that tests the arrival rate and not the service rate
BaseQueue_is_valid_lamda_only(self) ==
    IF Le(self._lamda, Zero) \/ isnan(self._lamda) THEN FALSE ELSE TRUE

BaseQueue_is_valid(self) ==
    IF Le(self._lamda, Zero) \/ isnan(self._lamda)
    THEN FALSE
    ELSE IF Le(self._mu, Zero) \/ isnan(self._mu)
         THEN FALSE
         ELSE TRUE

MG1Queue_is_valid(self) ==
    IF isnan(self._sigma)
    THEN FALSE
    ELSE IF Lt(self._sigma, Zero)
         THEN FALSE
         ELSE BaseQueue_is_valid(self)

\* MMcPriorityQueue.is_valid raises where len(self._lamda_k) does
is_valid_raises(self) == self.kind = "MMcPriorityQueue" /\ ~IsSeq(self._lamda_k)

\* FALSE also where the call raises; is_valid_raises tells the two apart
MMcPriorityQueue_is_valid(self) ==
    LET lk == self._lamda_k
    IN  IF ~IsSeq(lk)
        THEN FALSE
        ELSE IF lk.ty = "str" /\ lk.n > 0
             THEN FALSE
             ELSE IF \E i \in 1 .. Len(lk.elems) :
                        \/ ~IsIntOrFloat(lk.elems[i])
                        \/ Le(ToExt(lk.elems[i]), Zero)
                  THEN FALSE
                  ELSE IF isnan(self._mu) THEN FALSE ELSE TRUE

\* method resolution of self.is_valid(): MG1Queue and MMcPriorityQueue
\* override it
is_valid(self) ==
    CASE self.kind = "MG1Queue" -> MG1Queue_is_valid(self)
      [] self.kind = "MMcPriorityQueue" -> MMcPriorityQueue_is_valid(self)
      [] OTHER -> BaseQueue_is_valid(self)

BaseQueue_is_feasible(self) ==
    IF is_valid(self)
    THEN IF Ge(r(self), One) THEN FALSE ELSE TRUE
    ELSE FALSE

\* MG1Queue.is_feasible without the call of the base validity check
MG1Queue_is_feasible_no_check(self) ==
    IF Eq(self._lamda, self._mu) THEN FALSE ELSE TRUE

\* is_feasible that asks MG1Queue's own is_valid, which tests sigma
MG1Queue_is_feasible_checks_sigma(self) ==
    IF Eq(self._lamda, self._mu) THEN FALSE ELSE MG1Queue_is_valid(self)

MG1Queue_is_feasible(self) ==
    IF Eq(self._lamda, self._mu) THEN FALSE ELSE BaseQueue_is_valid(self)

MMcQueue_is_feasible(self) ==
    IF is_valid(self)
    THEN IF Ge(ro(self), One) THEN FALSE ELSE TRUE
    ELSE FALSE

\* method resolution of self.is_feasible()
is_feasible(self) ==
    CASE self.kind = "MG1Queue" -> MG1Queue_is_feasible(self)
      [] self.kind \in MultiServer -> MMcQueue_is_feasible(self)
      [] OTHER -> BaseQueue_is_feasible(self)


\* ------------------------------------------------------------------------
\* Recomputation
\* ------------------------------------------------------------------------
\* BaseQueue.calc_metrics, the method the lq and p0 getters call.  It has
\* no branch for valid, feasible parameters, clears no flag, and no
\* subclass overrides it.
\* calc_metrics whose infeasible branch forgets _p0
calc_metrics_lq_only(self) ==
    IF is_valid_raises(self)
    THEN self
    ELSE IF ~is_valid(self)
         THEN [self EXCEPT !._lq = NaN, !._p0 = NaN]
         ELSE IF ~is_feasible(self)
              THEN [self EXCEPT !._lq = Inf]
              ELSE self

\* the instance after the call; the call raises where is_valid() does and
\* then leaves the instance as it was
calc_metrics(self) ==
    IF is_valid_raises(self)
    THEN self
    ELSE IF ~is_valid(self)
         THEN [self EXCEPT !._lq = NaN, !._p0 = NaN]
         ELSE IF ~is_feasible(self)
              THEN [self EXCEPT !._lq = Inf, !._p0 = Inf]
              ELSE self

\* The subclasses' formula steps, each named _calc_metrics.  They return
\* the instance after the call and Raise in ret when the call raises.
Sentinels(self, formula) ==
    IF is_valid_raises(self)
    THEN Raises(self)
    ELSE IF ~is_valid(self)
         THEN [self |-> [self EXCEPT !._lq = NaN, !._p0 = NaN], ret |-> None]
         ELSE IF ~is_feasible(self)
              THEN [self |-> [self EXCEPT !._lq = Inf, !._p0 = Inf], ret |-> None]
              ELSE formula

MM1Queue_calc_metrics(self) ==
    Sentinels(self,
        LET lq_ == Div(Pow(self._lamda, 2),
                       Mul(self._mu, Sub(self._mu, self._lamda)))
            p0_ == Sub(One, Div(self._lamda, self._mu))
        IN  [self |-> [self EXCEPT !._lq = lq_, !._p0 = p0_], ret |-> None])

\* the M/D/1 formula with the square of lamda / mu in the numerator
MD1Queue_calc_metrics_r2(self) ==
    Sentinels(self,
        LET lq_ == Div(Pow(r(self), 2),
                       Mul(Mul(Num(2, 1), self._mu), Sub(self._mu, self._lamda)))
            p0_ == Sub(One, Div(self._lamda, self._mu))
        IN  [self |-> [self EXCEPT !._lq = lq_, !._p0 = p0_], ret |-> None])

MD1Queue_calc_metrics(self) ==
    Sentinels(self,
        LET lq_ == Div(Pow(self._lamda, 2),
                       Mul(Mul(Num(2, 1), self._mu), Sub(self._mu, self._lamda)))
            p0_ == Sub(One, Div(self._lamda, self._mu))
        IN  [self |-> [self EXCEPT !._lq = lq_, !._p0 = p0_], ret |-> None])

MG1Queue_calc_metrics(self) ==
    Sentinels(self,
        LET lq_ == Div(Add(Mul(Pow(self._lamda, 2), Pow(self._sigma, 2)),
                           Pow(r(self), 2)),
                       Mul(Num(2, 1), Sub(One, r(self))))
            p0_ == Sub(One, r(self))
        IN  [self |-> [self EXCEPT !._lq = lq_, !._p0 = p0_], ret |-> None])

\* sum(r ** i / factorial(i) for i in range(c))
RECURSIVE Term1(_, _)
Term1(self, c) ==
    IF c = 0 THEN Zero
    ELSE Add(Term1(self, c - 1),
             Div(Pow(r(self), c - 1), Num(factorial(c - 1), 1)))

MMcQueue_calc_metrics(self) ==
    Sentinels(self,
        IF ~IsNum(self._c)
        THEN \* range(nan) raises TypeError before anything is assigned
             [self |-> self, ret |-> Raise]
        ELSE LET c_    == self._c.n
                 term1 == Term1(self, c_)
                 term2 == Div(Pow(r(self), c_),
                              Mul(Num(factorial(c_), 1), Sub(One, ro(self))))
                 p0_   == Div(One, Add(term1, term2))
                 num   == Mul(Pow(r(self), c_), ro(self))
                 den   == Mul(Num(factorial(c_), 1), Pow(Sub(One, ro(self)), 2))
                 lq_   == Div(Mul(p0_, num), den)
             IN  [self |-> [self EXCEPT !._lq = lq_, !._p0 = p0_], ret |-> None])

\* method resolution of x._calc_metrics(); BaseQueue has no such method
_calc_metrics(self) ==
    CASE self.kind = "MM1Queue" -> MM1Queue_calc_metrics(self)
      [] self.kind = "MD1Queue" -> MD1Queue_calc_metrics(self)
      [] self.kind = "MG1Queue" -> MG1Queue_calc_metrics(self)
      [] self.kind \in MultiServer -> MMcQueue_calc_metrics(self)

\* ------------------------------------------------------------------------
\* Metric getters: each returns the instance after the read, the value
\* read and the number of calc_metrics calls the read made
\* ------------------------------------------------------------------------
\* lq that returns the primitive it found, before the recomputation
lq_stale(self) ==
    LET s == IF self._recalc_needed THEN calc_metrics(self) ELSE self
    IN  [self |-> s,
         ret |-> IF self._recalc_needed /\ is_valid_raises(self) THEN Raise ELSE self._lq,
         calls |-> IF self._recalc_needed THEN 1 ELSE 0]

\* lq that recomputes whatever the flag says
lq_always(self) ==
    [self |-> calc_metrics(self),
     ret |-> IF is_valid_raises(self) THEN Raise ELSE calc_metrics(self)._lq,
     calls |-> 1]

lq(self) ==
    LET s == IF self._recalc_needed THEN calc_metrics(self) ELSE self
    IN  [self |-> s,
         ret |-> IF self._recalc_needed /\ is_valid_raises(self) THEN Raise ELSE s._lq,
         calls |-> IF self._recalc_needed THEN 1 ELSE 0]

p0(self) ==
    LET s == IF self._recalc_needed THEN calc_metrics(self) ELSE self
    IN  [self |-> s,
         ret |-> IF self._recalc_needed /\ is_valid_raises(self) THEN Raise ELSE s._p0,
         calls |-> IF self._recalc_needed THEN 1 ELSE 0]

\* l that multiplies the rates instead of dividing them
l_product(self) ==
    LET g == lq(self)
    IN  [g EXCEPT !.ret = Add(g.ret, Mul(g.self._lamda, g.self._mu))]

l(self) ==
    LET g == lq(self)
    IN  [g EXCEPT !.ret = Add(g.ret, Div(g.self._lamda, g.self._mu))]

wq(self) ==
    LET g == lq(self)
    IN  [g EXCEPT !.ret = Div(g.ret, g.self._lamda)]

w(self) ==
    LET g == wq(self)
    IN  [g EXCEPT !.ret = Add(g.ret, Div(One, g.self._mu))]

\* ------------------------------------------------------------------------
\* MMcPriorityQueue: per-class accessors
\* ------------------------------------------------------------------------
\* past the first test k exceeds len(_lamda_k), so k is at least 1 and the
\* loop indexes the one-element tuple (self.lamda,) at 0 .. k - 1
get_b_k(self, k) ==
    LET lk == self._lamda_k
    IN  IF ~IsSeq(lk)
        THEN Raise
        ELSE IF k <= len(lk)
             THEN NaN
             ELSE IF k # 0
                  THEN LET rho0 == Div(lamda(self), Mul(self._c, self._mu))
                       IN  IF k > 1 THEN Raise ELSE Sub(One, Add(Zero, rho0))
                  ELSE One

get_lamda_k(self, k) ==
    LET lk == self._lamda_k
    IN  IF k <= 0
        THEN NaN
        ELSE IF ~IsSeq(lk)
             THEN Raise
             ELSE IF k < len(lk)
                  THEN NaN
                  ELSE IF lk.ty = "str"
                       THEN IF lk.n > 0 THEN NaN ELSE Raise
                       ELSE IF \E i \in 1 .. Len(lk.elems) :
                                  \/ ~IsIntOrFloat(lk.elems[i])
                                  \/ Le(ToExt(lk.elems[i]), Zero)
                            THEN NaN
                            ELSE IF k > Len(lk.elems)
                                 THEN Raise
                                 ELSE ToExt(lk.elems[k])

\* self.ro is evaluated before self.wq, the only part that can change the
\* instance; wq writes _lq and _p0 only, which get_b_k does not read
get_wq_k(self, k) ==
    IF Raised(ro(self))
    THEN [self |-> self, ret |-> Raise, calls |-> 0]
    ELSE [wq(self) EXCEPT
            !.ret = Div(Mul(Sub(One, ro(self)), @),
                        Mul(get_b_k(self, k - 1), get_b_k(self, k)))]

get_w_k(self, k) ==
    [get_wq_k(self, k) EXCEPT !.ret = Add(Div(One, self._mu), @)]

get_lq_k(self, k) ==
    IF Raised(get_lamda_k(self, k))
    THEN [self |-> self, ret |-> Raise, calls |-> 0]
    ELSE [get_wq_k(self, k) EXCEPT !.ret = Mul(get_lamda_k(self, k), @)]

get_l_k(self, k) ==
    IF Raised(get_lamda_k(self, k))
    THEN [self |-> self, ret |-> Raise, calls |-> 0]
    ELSE [get_w_k(self, k) EXCEPT !.ret = Mul(get_lamda_k(self, k), @)]

get_ro_k(self, k) == Div(get_lamda_k(self, k), Mul(self._c, self._mu))


\* ------------------------------------------------------------------------
\* One queue instance and the calls made on it
\* ------------------------------------------------------------------------
VARIABLES
    self,   \* the instance: kind and the attributes _lamda .. _recalc_needed
    op,     \* name of the last call made on the instance
    arg,    \* argument of the last call (NoArg when it takes none)
    ret,    \* value the last call returned (None for a setter, Raise when
            \* the call raised)
    ran,    \* whether the last call ran calc_metrics
    ncalc   \* calc_metrics runs made by getters since the last assignment

vars == <<self, op, arg, ret, ran, ncalc>>

SetterOps == {"lamda.setter", "mu.setter", "sigma.setter", "c.setter"}
PrimitiveOps == {"lq", "p0"}
AccessorOps == {"get_b_k", "get_lamda_k", "get_wq_k", "get_w_k", "get_lq_k",
                "get_l_k", "get_ro_k"}

Init ==
    /\ \E kind \in Kinds, lamda_ \in LamdaInputs, mu \in MuInputs :
          CASE kind = "MG1Queue" ->
                 \E sigma \in SigmaInputs :
                    /\ self = MG1Queue_init(lamda_, mu, sigma)
                    /\ ret = None
            [] kind = "MMcQueue" ->
                 \E c \in CInputs :
                    /\ self = MMcQueue_init(lamda_, mu, c)
                    /\ ret = None
            [] OTHER ->
                    /\ self = BaseQueue_init(kind, lamda_, mu)
                    /\ ret = None
    /\ op = "__init__"
    /\ arg = NoArg
    /\ ran = FALSE
    /\ ncalc = 0

\* an MMcPriorityQueue after construction, or the failed construction
PriorityInit ==
    /\ \E lamda_ \in PriorityLamdaInputs, mu \in PriorityMuInputs,
          c \in PriorityCInputs :
          /\ self = MMcPriorityQueue_init(lamda_, mu, c).self
          /\ ret = MMcPriorityQueue_init(lamda_, mu, c).ret
    /\ op = "__init__"
    /\ arg = NoArg
    /\ ran = FALSE
    /\ ncalc = 0

\* a constructor that raised leaves no instance to call
Constructed == ~(op = "__init__" /\ Raised(ret))

Assign(call, name, value) ==
    /\ Constructed
    /\ \E res \in {call} :
          /\ self' = res.self
          /\ ret' = res.ret
    /\ op' = name
    /\ arg' = value
    /\ ran' = FALSE
    /\ ncalc' = 0

SetLamda ==
    IF self.kind = "MMcPriorityQueue"
    THEN \E value \in PriorityLamdaInputs :
            Assign(MMcPriorityQueue_lamda_setter(self, value), "lamda.setter", value)
    ELSE \E value \in LamdaInputs :
            Assign(Returns(lamda_setter(self, value)), "lamda.setter", value)

SetMu ==
    \E value \in IF self.kind = "MMcPriorityQueue" THEN PriorityMuInputs ELSE MuInputs :
       Assign(Returns(mu_setter(self, value)), "mu.setter", value)

SetSigma ==
    /\ self.kind = "MG1Queue"
    /\ \E value \in SigmaInputs :
          Assign(Returns(sigma_setter(self, value)), "sigma.setter", value)

SetC ==
    /\ self.kind \in MultiServer
    /\ \E value \in IF self.kind = "MMcQueue" THEN CInputs ELSE PriorityCInputs :
          Assign(Returns(c_setter(self, value)), "c.setter", value)

SetLamdaK ==
    /\ self.kind = "MMcPriorityQueue"
    /\ \E values \in LamdaKInputs :
          Assign(MMcPriorityQueue_lamda_k_setter(self, values), "lamda_k.setter", values)

Read(call, name, a) ==
    /\ Constructed
    /\ \E g \in {call} :
          /\ ncalc + g.calls <= MaxCalc
          /\ self' = g.self
          /\ ret' = g.ret
          /\ ran' = (g.calls > 0)
          /\ ncalc' = ncalc + g.calls
    /\ op' = name
    /\ arg' = a

ReadLq == Read(lq(self), "lq", NoArg)
ReadP0 == Read(p0(self), "p0", NoArg)
ReadL  == Read(l(self), "l", NoArg)
ReadWq == Read(wq(self), "wq", NoArg)
ReadW  == Read(w(self), "w", NoArg)

Pure(value, name, a) ==
    /\ Constructed
    /\ op' = name
    /\ arg' = a
    /\ ret' = value
    /\ ran' = FALSE
    /\ UNCHANGED <<self, ncalc>>

ReadR == Pure(r(self), "r", NoArg)
ReadRo == Pure(ro(self), "ro", NoArg)
ReadUtilization == Pure(utilization(self), "utilization", NoArg)
ReadLamda == Pure(lamda(self), "lamda", NoArg)

GetBK ==
    /\ self.kind = "MMcPriorityQueue"
    /\ \E k \in KInputs : Pure(get_b_k(self, k), "get_b_k", Int_(k))

GetLamdaK ==
    /\ self.kind = "MMcPriorityQueue"
    /\ \E k \in KInputs : Pure(get_lamda_k(self, k), "get_lamda_k", Int_(k))

GetRoK ==
    /\ self.kind = "MMcPriorityQueue"
    /\ \E k \in KInputs : Pure(get_ro_k(self, k), "get_ro_k", Int_(k))

GetWqK ==
    /\ self.kind = "MMcPriorityQueue"
    /\ \E k \in KInputs : Read(get_wq_k(self, k), "get_wq_k", Int_(k))

GetWK ==
    /\ self.kind = "MMcPriorityQueue"
    /\ \E k \in KInputs : Read(get_w_k(self, k), "get_w_k", Int_(k))

GetLqK ==
    /\ self.kind = "MMcPriorityQueue"
    /\ \E k \in KInputs : Read(get_lq_k(self, k), "get_lq_k", Int_(k))

GetLK ==
    /\ self.kind = "MMcPriorityQueue"
    /\ \E k \in KInputs : Read(get_l_k(self, k), "get_l_k", Int_(k))

\* a direct call of the variant's formula step, as the test suites make
CallCalcMetrics ==
    /\ Constructed
    /\ self.kind # "BaseQueue"
    /\ \E res \in {_calc_metrics(self)} :
          /\ self' = res.self
          /\ ret' = res.ret
    /\ op' = "_calc_metrics"
    /\ arg' = NoArg
    /\ ran' = FALSE
    /\ UNCHANGED ncalc

\* the BaseQueue tests store a value in _lq and clear the flag by hand
ForcedLq == { Num(100, 1), Num(16, 5) }

ForceLq ==
    /\ self.kind = "BaseQueue"
    /\ \E value \in ForcedLq :
          self' = [self EXCEPT !._lq = value, !._recalc_needed = FALSE]
    /\ op' = "force"
    /\ arg' = NoArg
    /\ ret' = None
    /\ ran' = FALSE
    /\ UNCHANGED ncalc

Next ==
    \/ SetLamda
    \/ SetMu
    \/ SetSigma
    \/ SetC
    \/ ReadLq
    \/ ReadP0
    \/ ReadL
    \/ ReadWq
    \/ ReadW
    \/ ReadR
    \/ ReadRo
    \/ ReadUtilization
    \/ ReadLamda
    \/ CallCalcMetrics
    \/ ForceLq

\* an instance of BaseQueue or of one of its single-class subclasses
Spec == Init /\ [][Next]_vars


\* the calls of the public interface only: assignments and metric reads
PublicNext ==
    \/ SetLamda
    \/ SetMu
    \/ SetSigma
    \/ SetC
    \/ ReadLq
    \/ ReadP0
    \/ ReadL
    \/ ReadWq
    \/ ReadW
    \/ ReadR
    \/ ReadRo
    \/ ReadUtilization
    \/ ReadLamda

PublicSpec == Init /\ [][PublicNext]_vars

\* the calls made on an MMcPriorityQueue
PriorityNext ==
    \/ SetLamda
    \/ SetMu
    \/ SetC
    \/ SetLamdaK
    \/ ReadLq
    \/ ReadP0
    \/ ReadL
    \/ ReadWq
    \/ ReadW
    \/ ReadR
    \/ ReadRo
    \/ ReadUtilization
    \/ ReadLamda
    \/ GetBK
    \/ GetLamdaK
    \/ GetRoK
    \/ GetWqK
    \/ GetWK
    \/ GetLqK
    \/ GetLK
    \/ CallCalcMetrics

PrioritySpec == PriorityInit /\ [][PriorityNext]_vars

\* an instance of any of the six classes and the calls its class offers
AnyInit == Init \/ PriorityInit

AnyNext ==
    \/ Next
    \/ SetLamdaK
    \/ GetBK
    \/ GetLamdaK
    \/ GetRoK
    \/ GetWqK
    \/ GetWK
    \/ GetLqK
    \/ GetLK

AnySpec == AnyInit /\ [][AnyNext]_vars

\* ------------------------------------------------------------------------
\* Properties
\* ------------------------------------------------------------------------
\* a newly constructed instance holding the same parameters
Fresh(q) == [q EXCEPT !._lq = NaN, !._p0 = NaN, !._recalc_needed = TRUE]

\* C1: the value a read of lq or p0 returns is determined by the current
\* parameters alone: it is the value a newly constructed instance with the
\* same parameters reads, whatever was assigned and read before.
C1_ReadDependsOnParametersOnly ==
    /\ op = "lq" => ret = lq(Fresh(self)).ret
    /\ op = "p0" => ret = p0(Fresh(self)).ret

Variants == {"MD1Queue", "MM1Queue", "MG1Queue", "MMcQueue"}

\* every parameter the instance has holds an accepted value and is_valid()
\* agrees
ParametersValid(q) ==
    /\ is_valid(q)
    /\ ~isnan(q._lamda) /\ ~isnan(q._mu) /\ ~isnan(q._sigma) /\ ~isnan(q._c)

\* C2: for every variant, a read of lq or p0 made with the flag set on valid,
\* feasible parameters returns the closed-form value of the variant's own
\* formula step; MD1Queue(20, 25) reads lq = 1.6 and p0 = 0.2.
C2_GetterRunsVariantFormula ==
    /\ (/\ self.kind \in Variants
        /\ op \in PrimitiveOps
        /\ ran
        /\ ParametersValid(self)
        /\ is_feasible(self))
       => /\ op = "lq" => ret = _calc_metrics(self).self._lq
          /\ op = "p0" => ret = _calc_metrics(self).self._p0
          /\ ~isnan(ret)
    /\ (/\ self.kind = "MD1Queue"
        /\ self._lamda = Num(20, 1)
        /\ self._mu = Num(25, 1))
       => /\ op = "lq" => ret = Num(8, 5)
          /\ op = "p0" => ret = Num(1, 5)

\* C3: every setter (arrival rate, service rate, sigma, server count) leaves
\* _recalc_needed true when it returns, whatever value was assigned.
C3_SetterLeavesFlagSet ==
    op \in SetterOps => self._recalc_needed

\* C3 witness: an invalid arrival rate was assigned to an instance whose flag
\* had been cleared (its _lq still holds the value stored with the cleared
\* flag), and the flag is set.
C3_Witness ==
    /\ op = "lamda.setter"
    /\ isnan(self._lamda)
    /\ self._lq = Num(100, 1)
    /\ self._recalc_needed

\* C4: the flag is false right after a read of lq or p0 recomputed, so the
\* flag is true if and only if no recomputation has happened since the last
\* parameter assignment.
C4_FlagIffNoRecomputation ==
    self._recalc_needed <=> (ncalc = 0)

\* C5: when is_valid() is false at a read of lq or p0 made with the flag set,
\* both cached primitives are NaN after the read and lq, l, wq, w and p0 all
\* read as NaN.
C5_InvalidReadsNaN ==
    (op \in PrimitiveOps /\ ran /\ ~is_valid(self))
    => /\ self._lq = NaN
       /\ self._p0 = NaN
       /\ ret = NaN
       /\ lq(self).ret = NaN
       /\ l(self).ret = NaN
       /\ wq(self).ret = NaN
       /\ w(self).ret = NaN
       /\ p0(self).ret = NaN

\* C6: when is_valid() is true and is_feasible() is false at a read of lq or
\* p0 made with the flag set, lq and p0 both read as +infinity; an MM1Queue
\* holding 25 and 25 is valid, infeasible and reads lq = +infinity.
C6_InfeasibleReadsInf ==
    /\ (op \in PrimitiveOps /\ ran /\ is_valid(self) /\ ~is_feasible(self))
       => /\ ret = Inf
          /\ lq(self).ret = Inf
          /\ p0(self).ret = Inf
    /\ (/\ self.kind = "MM1Queue"
        /\ self._lamda = Num(25, 1)
        /\ self._mu = Num(25, 1))
       => /\ is_valid(self)
          /\ ~is_feasible(self)
          /\ op = "lq" => ret = Inf

\* C6 witness: lq has been read on an MM1Queue holding 25 and 25 and
\* returned +infinity.
C6_Witness ==
    /\ self.kind = "MM1Queue"
    /\ self._lamda = Num(25, 1)
    /\ self._mu = Num(25, 1)
    /\ op = "lq"
    /\ ran
    /\ ret = Inf

\* arrival rate divided by server count times service rate, the server
\* count being 1 for the single-server variants
PerServerUtilization(q) ==
    IF q.kind = "MMcQueue" THEN Div(q._lamda, Mul(q._c, q._mu))
                           ELSE Div(q._lamda, q._mu)

\* C7: with valid parameters, a read of lq returns +infinity if and only if
\* utilization is greater than or equal to 1.
C7_InfIffUtilizationAtLeastOne ==
    (op = "lq" /\ ParametersValid(self))
    => (ret = Inf <=> Ge(PerServerUtilization(self), One))

C9_FeasibleIffValidAndBelowOne ==
    is_feasible(self) <=> (is_valid(self) /\ Lt(PerServerUtilization(self), One))

\* C10: is_valid() is false whenever the variant's extra parameter violates
\* its constraint: an MG1Queue sigma that is negative or not a number, an
\* MMcQueue server count that is not a positive integer (both stored as NaN).
C10_InvalidExtraParameter ==
    /\ (self.kind = "MG1Queue" /\ isnan(self._sigma)) => ~is_valid(self)
    /\ (self.kind = "MMcQueue" /\ isnan(self._c)) => ~is_valid(self)

\* whether every element of a tuple is a positive number
AllPositive(es) ==
    \A i \in 1 .. Len(es) : IsNumber(es[i]) /\ Gt(Val(es[i]), Zero)

\* C11: an assignment to the arrival rate of a BaseQueue stores the value
\* itself when it is a positive number, the sum of the elements when it is a
\* tuple whose elements are all positive numbers, and NaN in every other
\* case; in particular a tuple with one bad element stores NaN, never the
\* sum of its good elements.
C11_ArrivalRateStoredWholeOrNaN ==
    op = "lamda.setter" =>
       CASE IsNumber(arg) /\ Gt(Val(arg), Zero) -> self._lamda = Val(arg)
         [] arg.ty = "tuple" /\ AllPositive(arg.elems) -> self._lamda = sum(arg.elems)
         [] OTHER -> isnan(self._lamda)

\* the tuple (5, 10, -5) was assigned and NaN, not 15, is stored
C11_Witness ==
    /\ op = "lamda.setter"
    /\ arg = Tuple_(<<Int_(5), Int_(10), Int_(-5)>>)
    /\ isnan(self._lamda)

\* C12: no constructor and no setter raises, whatever it is handed: the
\* construction of an MMcPriorityQueue (also with a scalar arrival rate) and
\* every assignment to lamda, mu, c and lamda_k completes.
C12_NoConstructorOrSetterRaises ==
    op \in {"__init__", "lamda_k.setter"} \cup SetterOps => ~Raised(ret)

\* an MMcPriorityQueue holding a tuple of K >= 1 acceptable class rates and
\* an acceptable service rate and server count
ClassRatesValid(q) ==
    /\ q._lamda_k.ty = "tuple"
    /\ Len(q._lamda_k.elems) >= 1
    /\ AllPositive(q._lamda_k.elems)
    /\ IsNum(q._mu) /\ IsNum(q._c)

\* the class index the last per-class accessor was called with
k_ == arg.n

\* C13: on an MMcPriorityQueue with K priority classes every per-class
\* accessor called with k > K returns NaN; none raises an index error.
C13_AboveLastClassReadsNaN ==
    (/\ ClassRatesValid(self)
     /\ op \in AccessorOps
     /\ k_ > Len(self._lamda_k.elems))
    => isnan(ret)

\* 1 minus the sum over j = 1 .. k of lamda_k[j] / (c * mu)
BlockingProbability(q, k) ==
    Sub(One, Div(sum(SubSeq(q._lamda_k.elems, 1, k)), Mul(q._c, q._mu)))

\* C14: on an MMcPriorityQueue with K valid class rates get_b_k(0) is 1 and
\* get_b_k(k), 1 <= k <= K, is 1 minus the sum over j = 1 .. k of
\* lamda_k[j] / (c * mu); classes (5, 10, 5) with mu = 25 and c = 1 give
\* 0.8, 0.4 and 0.2.
C14_BlockingProbabilityFormula ==
    (/\ ClassRatesValid(self)
     /\ op = "get_b_k"
     /\ k_ \in 0 .. Len(self._lamda_k.elems))
    => ret = BlockingProbability(self, k_)

\* C15: on an MMcPriorityQueue with valid, feasible parameters get_wq_k(k),
\* 1 <= k <= K, is (1 - ro) * wq / (get_b_k(k - 1) * get_b_k(k)), a number;
\* classes (5, 10, 5) with mu = 25 and c = 1 give get_wq_k(1) = 0.04.
C15_PerClassWaitFormula ==
    (/\ ClassRatesValid(self)
     /\ is_valid(self) /\ is_feasible(self)
     /\ op = "get_wq_k"
     /\ k_ \in 1 .. Len(self._lamda_k.elems))
    => /\ ret = Div(Mul(Sub(One, ro(self)), wq(self).ret),
                    Mul(BlockingProbability(self, k_ - 1),
                        BlockingProbability(self, k_)))
       /\ IsNum(ret)
       /\ (/\ self._lamda_k = Tuple_(<<Int_(5), Int_(10), Int_(5)>>)
           /\ self._mu = Num(25, 1) /\ self._c = One
           /\ k_ = 1)
          => ret = Num(1, 25)

\* C16: on an MMcPriorityQueue and for k <= 0, get_l_k(k) returns +infinity
\* and get_lamda_k, get_wq_k, get_w_k, get_lq_k and get_ro_k return NaN.
C16_NonPositiveClassIndex ==
    (/\ ClassRatesValid(self)
     /\ op \in AccessorOps \ {"get_b_k"}
     /\ k_ <= 0)
    => IF op = "get_l_k" THEN ret = Inf ELSE isnan(ret)

\* C17: right after an MMcPriorityQueue is constructed with a tuple of
\* class rates, lamda reads the sum of the tuple when every element is a
\* positive number and NaN when some element is not.
C17_AggregateAfterConstruction ==
    (/\ self.kind = "MMcPriorityQueue"
     /\ op = "__init__"
     /\ ~Raised(ret)
     /\ self._lamda_k.ty = "tuple"
     /\ Len(self._lamda_k.elems) >= 1)
    => IF AllPositive(self._lamda_k.elems)
       THEN lamda(self) = sum(self._lamda_k.elems)
       ELSE isnan(lamda(self))

\* where a tuple of positive numbers was just assigned to lamda_k and the
\* assignment completed, lamda_k reads that tuple
RoundTrip ==
    (/\ op = "lamda_k.setter"
     /\ ~Raised(ret)
     /\ arg.ty = "tuple" /\ Len(arg.elems) >= 1 /\ AllPositive(arg.elems))
    => lamda_k(self) = arg

\* an assignment of a positive number to lamda, or of anything to mu or c,
\* leaves lamda_k a tuple when it was one
StaysTuple ==
    (/\ self.kind = "MMcPriorityQueue"
     /\ lamda_k(self).ty = "tuple"
     /\ op' \in {"lamda.setter", "mu.setter", "c.setter"}
     /\ op' = "lamda.setter" => IsNumber(arg') /\ Gt(Val(arg'), Zero))
    => lamda_k(self').ty = "tuple"

\* C18: after a tuple of positive numbers is assigned to lamda_k, lamda_k
\* reads that same ordered tuple, and it is still an ordered tuple after
\* any later assignment to lamda, mu or c.
C18_ClassRatesRoundTrip == [][RoundTrip' /\ StaysTuple]_vars

\* C19: the utilization of an MMcQueue is lamda / (c * mu), the value of ro,
\* not r = lamda / mu.
C19_UtilizationPerServer ==
    (/\ self.kind = "MMcQueue"
     /\ ParametersValid(self)
     /\ op = "utilization")
    => /\ ret = Div(self._lamda, Mul(self._c, self._mu))
       /\ ret = ro(self)

\* C20: in every state with valid, feasible parameters a read of l returns
\* lq + lamda / mu, a read of wq returns lq / lamda and a read of w returns
\* wq + 1 / mu, where lq and wq are the values those metrics read in that
\* state, whatever they are (an operation on NaN gives NaN).
C20_DerivedMetricIdentities ==
    (is_valid(self) /\ is_feasible(self)) =>
       /\ op = "l"  => ret = Add(lq(self).ret, Div(self._lamda, self._mu))
       /\ op = "wq" => ret = Div(lq(self).ret, self._lamda)
       /\ op = "w"  => ret = Add(wq(self).ret, Div(One, self._mu))

\* an MD1Queue(20, 25) whose _lq holds 1.6 reads l = 1.6 + 0.8
C20_Witness ==
    /\ self.kind = "MD1Queue"
    /\ is_valid(self) /\ is_feasible(self)
    /\ op = "l"
    /\ self._lq = Num(8, 5)
    /\ ret = Num(12, 5)

\* C21: a metric read twice in a row, with no call in between, returns the
\* same value both times
MetricOps == {"lq", "p0", "l", "wq", "w", "r", "ro", "utilization"}

C21_RepeatedReadSameValue ==
    [][(op \in MetricOps /\ op' = op) => ret' = ret]_vars

\* the second of two recomputing reads of lq has returned
C21_Witness ==
    /\ op = "lq"
    /\ ncalc = 2
    /\ isinf(ret)

\* C22: on an MMcPriorityQueue with K valid class rates get_b_k does not
\* increase with k: get_b_k(k + 1) <= get_b_k(k) for every 0 <= k < K
C22_BlockingProbabilityNonIncreasing ==
    ClassRatesValid(self)
    => \A k \in 0 .. Len(self._lamda_k.elems) - 1 :
          Le(get_b_k(self, k + 1), get_b_k(self, k))

C24_RecomputesOncePerAssignment ==
    [][(op \in PrimitiveOps /\ op' \in PrimitiveOps) => ~ran']_vars

\* C25: with the flag cleared a read of lq or p0 returns the stored primitive
\* as it is, runs no recomputation and changes no field of the instance, and
\* l, wq and w are derived from the stored _lq and the current parameters
C25_CleanReadReturnsStored ==
    [][(/\ self._recalc_needed = FALSE
        /\ op' \in {"lq", "p0", "l", "wq", "w"})
       => /\ self' = self
          /\ ran' = FALSE
          /\ (op' = "lq" => ret' = self._lq)
          /\ (op' = "p0" => ret' = self._p0)
          /\ (op' = "l" => ret' = Add(self._lq, Div(self._lamda, self._mu)))
          /\ (op' = "wq" => ret' = Div(self._lq, self._lamda))
          /\ (op' = "w" => ret' = Add(Div(self._lq, self._lamda),
                                      Div(One, self._mu)))]_vars

\* l read from a stored _lq of 3.2 with the flag cleared, lamda 20 and mu 25
C25_Witness ==
    /\ op = "l"
    /\ self._recalc_needed = FALSE
    /\ ran = FALSE
    /\ self._lq = Num(16, 5)
    /\ ret = Num(4, 1)

\* C26: no setter writes the cached primitives: across an assignment to the
\* arrival rate, the service rate, sigma, the server count or the class rates
\* _lq and _p0 keep their values; after construction only a recomputation
\* (or the tests' direct store) changes them
AssignmentOps == SetterOps \cup {"lamda_k.setter"}

C26_SettersKeepPrimitives ==
    [][/\ op' \in AssignmentOps
          => /\ self'._lq = self._lq
             /\ self'._p0 = self._p0
       /\ (self'._lq # self._lq \/ self'._p0 # self._p0)
          => (ran' \/ op' \in {"_calc_metrics", "force"})]_vars

\* class rates assigned while _lq holds the inf of an earlier read
C26_Witness ==
    /\ op = "lamda_k.setter"
    /\ ~Raised(ret)
    /\ IsNum(self._lamda)
    /\ isinf(self._lq)

\* an MD1Queue with valid, feasible parameters on which _calc_metrics has
\* just run
MD1FormulaStepRan ==
    /\ self.kind = "MD1Queue"
    /\ op = "_calc_metrics"
    /\ is_valid(self) /\ is_feasible(self)

\* C27 as stated: the MD1Queue formula step, run on valid feasible
\* parameters, stores lq = r^2 / (2 * mu * (mu - lamda)) with r = lamda / mu,
\* and p0 = 1 - r
C27_MD1FormulaAsStated ==
    MD1FormulaStepRan
    => /\ self._lq = Div(Pow(r(self), 2),
                         Mul(Mul(Num(2, 1), self._mu), Sub(self._mu, self._lamda)))
       /\ self._p0 = Sub(One, r(self))

\* C27, amended: the MD1Queue formula step, run on valid feasible parameters,
\* stores lq = lamda^2 / (2 * mu * (mu - lamda)), which is r^2 / (2 * (1 - r)),
\* and p0 = 1 - r
C27_MD1Formula ==
    MD1FormulaStepRan
    => /\ self._lq = Div(Mul(self._lamda, self._lamda),
                         Mul(Num(2, 1), Mul(self._mu, Sub(self._mu, self._lamda))))
       /\ self._lq = Div(Pow(r(self), 2), Mul(Num(2, 1), Sub(One, r(self))))
       /\ self._p0 = Sub(One, r(self))

\* MD1Queue(20, 25) after its formula step: lq = 1.6 and p0 = 0.2
C27_Witness ==
    /\ MD1FormulaStepRan
    /\ self._lq = Num(8, 5)
    /\ self._p0 = Num(1, 5)

\* C28: after an assignment to the arrival rate of a BaseQueue the stored
\* arrival rate is NaN or a strictly positive number; the empty tuple is
\* stored as NaN, not as 0
C28_ArrivalRateNaNOrPositive ==
    op = "lamda.setter"
    => /\ isnan(self._lamda) \/ Gt(self._lamda, Zero)
       /\ arg = Tuple_(<<>>) => isnan(self._lamda)

\* C29: MG1Queue.is_feasible() does not depend on sigma: an MG1Queue and the
\* MG1Queue that differs from it only by an assignment to sigma, of any value,
\* return the same is_feasible(); with lamda = 20 and mu = 25 it is true
\* whatever sigma is
C29_FeasibleIgnoresSigma ==
    self.kind = "MG1Queue"
    => /\ \A value \in SigmaInputs :
             is_feasible(sigma_setter(self, value)) = is_feasible(self)
       /\ (self._lamda = Num(20, 1) /\ self._mu = Num(25, 1))
             => is_feasible(self) = TRUE

\* lamda = 20, mu = 25 and a sigma that is not a number: feasible, not valid
C29_Witness ==
    /\ self.kind = "MG1Queue"
    /\ op = "sigma.setter"
    /\ arg = Str_
    /\ isnan(self._sigma)
    /\ self._lamda = Num(20, 1) /\ self._mu = Num(25, 1)
    /\ is_feasible(self)
    /\ ~is_valid(self)

\* every parameter field of the instance's class holds a valid value
EveryParameterValid(q) ==
    /\ IsNum(q._lamda) /\ Gt(q._lamda, Zero)
    /\ IsNum(q._mu) /\ Gt(q._mu, Zero)
    /\ q.kind = "MG1Queue" => (IsNum(q._sigma) /\ Ge(q._sigma, Zero))
    /\ q.kind = "MMcQueue" => (IsNum(q._c) /\ Gt(q._c, Zero))

\* C30: for BaseQueue, MM1Queue, MD1Queue, MG1Queue and MMcQueue is_valid()
\* depends on the stored parameters only: after any sequence of assignments
\* it is true once every parameter field holds a valid value again, and false
\* as long as the arrival rate or the service rate holds NaN
C30_ValidityOfStoredParameters ==
    self.kind \in Kinds
    => /\ EveryParameterValid(self) => is_valid(self) = TRUE
       /\ (isnan(self._lamda) \/ isnan(self._mu)) => is_valid(self) = FALSE
       /\ is_valid(self) = is_valid(Fresh(self))

\* an MG1Queue that is valid after an assignment to its arrival rate
C30_Witness ==
    /\ self.kind = "MG1Queue"
    /\ op = "lamda.setter"
    /\ EveryParameterValid(self)
    /\ is_valid(self)
    /\ isnan(self._lq) /\ isnan(self._p0)

============================================================================
